---- MODULE Spec2Model ----
(***************************************************************************)
(* A model of pkg/restic/output.go: the extractors that read the output of *)
(* the restic sub-commands (backup, check, forget) and the persistence of  *)
(* the BackupOutput / RestoreOutput records as JSON files.                 *)
(*                                                                         *)
(* The specifications of the module, one per group of operations:          *)
(*   SpecBackup  / FairSpecBackup   extractBackupInfo (the decode loop)    *)
(*   SpecCheck                      extractCheckInfo  (the line scanner)   *)
(*   SpecCleanup                    extractCleanupInfo                     *)
(*   SpecIO                         WriteOutput / Read*Output, one caller  *)
(*   SpecConc                       the same operations, two callers       *)
(* Each leaves the variables of the other groups untouched.                *)
(***************************************************************************)
EXTENDS Integers, Sequences, FiniteSets, TLC

VARIABLES
    \* extractBackupInfo
    output,         \* the bytes handed in, as the sequence of JSON values they hold
    path,           \* the path argument
    dec,            \* the decoder's offset: how many values of output it has consumed
    jsonOutput,     \* the BackupSummary decode target, shared by every iteration
    snapshotStats,  \* the record returned
    backupErr,      \* the error returned
    backupPc,       \* "idle" | "loop" | "map" | "done"
    \* extractCheckInfo
    checkOut,       \* the bytes handed in (out), as a sequence of text pieces
    scanned,        \* the scanner's offset: how many pieces it has consumed
    line,           \* the line variable
    checkResult,    \* the boolean returned
    checkPc,        \* "idle" | "scan" | "done"
    \* extractCleanupInfo
    cleanupOut,     \* the bytes handed in (out), as the JSON value they hold
    fg,             \* the decoded []ForgetGroup
    idx,            \* the loop index i
    keep,           \* the running count of kept snapshots
    removed,        \* the running count of removed snapshots
    cleanupRet,     \* what the function returned: keep, removed, err
    cleanupPc,      \* "idle" | "unmarshal" | "loop" | "done"
    \* WriteOutput, ReadBackupOutput, ReadRestoreOutput and their callers
    fs,             \* the file system: its directories and its files' contents
    fs0,            \* the file system the callers started with
    budget,         \* per caller, the calls it has yet to make
    callPc,         \* per caller, the statement its call is at
    callOp,         \* per caller, the call: function, receiver, fileName
    before,         \* per caller, the file system as its call began
    jsonText,       \* per caller, the local jsonOutput of WriteOutput
    data,           \* per caller, the local data of Read*Output
    ret,            \* per caller, what its call returned
    prev,           \* per caller, its previous call and what that returned
    overlap         \* whether a step was taken while another call was under way

backupVars == <<output, path, dec, jsonOutput, snapshotStats, backupErr, backupPc>>

checkVars == <<checkOut, scanned, line, checkResult, checkPc>>

cleanupVars == <<cleanupOut, fg, idx, keep, removed, cleanupRet, cleanupPc>>

ioVars == <<fs, fs0, budget, callPc, callOp, before, jsonText, data, ret, prev,
            overlap>>

vars == <<backupVars, checkVars, cleanupVars, ioVars>>

\* what the operations of one group leave alone: the other groups' variables
notBackupVars == <<checkVars, cleanupVars, ioVars>>
notCheckVars == <<backupVars, cleanupVars, ioVars>>
notCleanupVars == <<backupVars, checkVars, ioVars>>
notIOVars == <<backupVars, checkVars, cleanupVars>>

----------------------------------------------------------------------------
(* Bounds of the model.                                                    *)

\* the longest stream of JSON values given to extractBackupInfo
MaxObjs == 3

\* the longest text, in pieces, given to extractCheckInfo
MaxPieces == 5

\* the most groups in the array given to extractCleanupInfo
MaxGroups == 2

\* the longest keep or remove list of a group
MaxEntries == 2

\* the calls the single caller of SpecIO makes, one after the other
MaxCalls == 2

----------------------------------------------------------------------------
(* JSON values. A number keeps its integer part and its first decimal, so  *)
(* that 1.5 and 1 differ; an object is a function from the keys it holds.  *)

Num(i, f) == [t |-> "num", int |-> i, frac |-> f]
Str(s) == [t |-> "str", v |-> s]
JNull == [t |-> "null"]

NoErr == "nil"
ErrEOF == "io.EOF"
ErrSyntax == "json.SyntaxError"
ErrType == "json.UnmarshalTypeError"

\* A pointer field is <<>> (nil) or <<v>>.
Nil == <<>>
Ptr(v) == <<v>>

----------------------------------------------------------------------------
(* The unit formatters. They live in a file of the package that is not     *)
(* among the sources read here; they are written from the specification.   *)

Units == <<"KiB", "MiB", "GiB", "TiB">>

RECURSIVE Pow1024(_)
Pow1024(u) == IF u = 0 THEN 1 ELSE 1024 * Pow1024(u - 1)

\* the largest unit whose scaled value is at least 1 (0 stands for plain bytes)
UnitOf(n) == IF n < 1024 THEN 0 ELSE IF n < 1024 * 1024 THEN 1 ELSE 2

Pad3(k) == IF k < 10 THEN "00" \o ToString(k)
           ELSE IF k < 100 THEN "0" \o ToString(k) ELSE ToString(k)

formatBytes(n) ==
    IF UnitOf(n) = 0 THEN ToString(n) \o " B"
    ELSE LET d == Pow1024(UnitOf(n))
             milli == (n * 2000 + d) \div (2 * d)
         IN  ToString(milli \div 1000) \o "." \o Pad3(milli % 1000)
                 \o " " \o Units[UnitOf(n)]

formatSeconds(n) ==
    LET h == n \div 3600
        m == (n % 3600) \div 60
        s == n % 60
    IN  (IF h > 0 THEN ToString(h) \o "h" ELSE "")
        \o (IF m > 0 THEN ToString(m) \o "m" ELSE "")
        \o (IF s > 0 \/ n = 0 THEN ToString(s) \o "s" ELSE "")

----------------------------------------------------------------------------
(* BackupSummary and the decoding of one JSON object into it.              *)

\* the zero value of BackupSummary
ZeroBackupSummary ==
    [MessageType |-> "", FilesNew |-> Nil, FilesChanged |-> Nil,
     FilesUnmodified |-> Nil, DataAdded |-> 0, TotalFilesProcessed |-> Nil,
     TotalBytesProcessed |-> 0, TotalDuration |-> Num(0, 0), SnapshotID |-> ""]

\* the json tag of each field of BackupSummary
BackupSummaryTag ==
    [MessageType |-> "message_type", FilesNew |-> "files_new",
     FilesChanged |-> "files_changed", FilesUnmodified |-> "files_unmodified",
     DataAdded |-> "data_added", TotalFilesProcessed |-> "total_files_processed",
     TotalBytesProcessed |-> "total_bytes_processed",
     TotalDuration |-> "total_duration", SnapshotID |-> "snapshot_id"]

\* the Go type of each field
BackupSummaryType ==
    [MessageType |-> "string", FilesNew |-> "*int64", FilesChanged |-> "*int64",
     FilesUnmodified |-> "*int64", DataAdded |-> "uint64",
     TotalFilesProcessed |-> "*int64", TotalBytesProcessed |-> "uint64",
     TotalDuration |-> "float64", SnapshotID |-> "string"]

\* whether encoding/json can store JSON value v in a field of Go type ty
Fits(v, ty) ==
    CASE v.t = "null" -> TRUE
      [] ty = "string" -> v.t = "str"
      [] ty = "float64" -> v.t = "num"
      [] OTHER -> v.t = "num" /\ v.frac = 0

\* the field after JSON value v has been stored in it: null clears a pointer
\* and leaves any other field as it was
Store(old, v, ty) ==
    CASE v.t = "null" -> IF ty = "*int64" THEN Nil ELSE old
      [] ty = "string" -> v.v
      [] ty = "float64" -> v
      [] ty = "*int64" -> Ptr(v.int)
      [] OTHER -> v.int

\* json.Unmarshal of object obj into the struct s: a key that obj holds
\* overwrites its field, a field whose key obj lacks keeps what it held
UnmarshalInto(s, obj) ==
    [f \in DOMAIN s |->
        IF BackupSummaryTag[f] \in DOMAIN obj
               /\ Fits(obj[BackupSummaryTag[f]], BackupSummaryType[f])
        THEN Store(s[f], obj[BackupSummaryTag[f]], BackupSummaryType[f])
        ELSE s[f]]

\* the error of decoding JSON object obj into a BackupSummary
UnmarshalErr(obj) ==
    IF \E f \in DOMAIN BackupSummaryTag :
           /\ BackupSummaryTag[f] \in DOMAIN obj
           /\ ~Fits(obj[BackupSummaryTag[f]], BackupSummaryType[f])
    THEN ErrType ELSE NoErr

----------------------------------------------------------------------------
(* The values a backup stream is made of.                                  *)

Malformed == [kind |-> "malformed"]
Object(fields) == [kind |-> "object", fields |-> fields]

StatusPlain ==
    Object([message_type |-> Str("status"), percent_done |-> Num(0, 5)])
StatusCounts ==
    Object([message_type |-> Str("status"), files_new |-> Num(5, 0),
            files_changed |-> Num(2, 0), files_unmodified |-> Num(7, 0),
            total_files_processed |-> Num(14, 0), data_added |-> Num(1024, 0),
            total_bytes_processed |-> Num(1536, 0),
            total_duration |-> Num(62, 7), snapshot_id |-> Str("feed0001")])
Untyped ==
    Object([files_new |-> Num(0, 0), total_bytes_processed |-> Num(10, 0)])
StatusNulls ==
    Object([message_type |-> Str("verbose_status"), files_new |-> JNull,
            data_added |-> JNull])
StatusMistyped ==
    Object([message_type |-> Str("status"), files_new |-> Num(1, 5)])
SummaryFull ==
    Object([message_type |-> Str("summary"), files_new |-> Num(3, 0),
            files_changed |-> Num(1, 0), files_unmodified |-> Num(10, 0),
            data_added |-> Num(2048, 0), total_files_processed |-> Num(14, 0),
            total_bytes_processed |-> Num(4096, 0),
            total_duration |-> Num(1, 5), snapshot_id |-> Str("abcd1234")])
SummaryPartial ==
    Object([message_type |-> Str("summary"), files_changed |-> Num(0, 0),
            data_added |-> Num(1048576, 0), total_duration |-> Num(3725, 9),
            snapshot_id |-> Str("ef567890")])
SummaryBare ==
    Object([message_type |-> Str("summary")])

Values ==
    {StatusPlain, StatusCounts, Untyped, StatusNulls, StatusMistyped,
     SummaryFull, SummaryPartial, SummaryBare, Malformed}

RECURSIVE SeqsUpTo(_, _)
SeqsUpTo(S, n) ==
    IF n = 0 THEN {<<>>}
    ELSE LET shorter == SeqsUpTo(S, n - 1)
         IN  shorter \cup {Append(s, x) : s \in shorter, x \in S}

Streams == SeqsUpTo(Values, MaxObjs)

Paths == {"/source/data", "/etc"}

----------------------------------------------------------------------------
(* extractCheckInfo. The text is a sequence of pieces: a line feed, a      *)
(* blank, the two halves of the marker, a word, and a run of bytes as long *)
(* as the largest token a bufio.Scanner accepts.                           *)

\* bufio.MaxScanTokenSize, the limit of the Scanner that NewScanner returns
MaxScanTokenSize == 65536

LF == "\n"
Blank == " "
LongRun == "xxxx..."

\* "no errors were found"
Marker == <<"no errors", Blank, "were found">>

Pieces == {LF, Blank, "no errors", "were found", LongRun}

\* the number of bytes of a piece
Width(c) ==
    CASE c = LongRun -> MaxScanTokenSize
      [] c = "no errors" -> 9
      [] c = "were found" -> 10
      [] OTHER -> 1

RECURSIVE ByteLen(_)
ByteLen(s) == IF s = <<>> THEN 0 ELSE Width(Head(s)) + ByteLen(Tail(s))

Texts == SeqsUpTo(Pieces, MaxPieces)

\* strings.TrimSpace
RECURSIVE TrimLeft(_)
TrimLeft(s) == IF s # <<>> /\ Head(s) = Blank THEN TrimLeft(Tail(s)) ELSE s

RECURSIVE TrimRight(_)
TrimRight(s) ==
    IF s # <<>> /\ s[Len(s)] = Blank THEN TrimRight(SubSeq(s, 1, Len(s) - 1))
    ELSE s

TrimSpace(s) == TrimRight(TrimLeft(s))

\* the unread rest of the text
Unread(out, off) == SubSeq(out, off + 1, Len(out))

\* bufio.ScanLines on the unread text: the length of the next line, its line
\* feed left out
LineLen(rest) ==
    IF \E i \in 1..Len(rest) : rest[i] = LF
    THEN (CHOOSE i \in 1..Len(rest) :
              rest[i] = LF /\ \A j \in 1..(i - 1) : rest[j] # LF) - 1
    ELSE Len(rest)

\* how far one Scan advances: over the line and its line feed
Advance(rest) ==
    IF LineLen(rest) < Len(rest) THEN LineLen(rest) + 1 ELSE LineLen(rest)

\* the buffer is full before the end of the line is in it (ErrTooLong)
TooLong(tok) == ByteLen(tok) >= MaxScanTokenSize

\* scanner.Scan(): there is a next line and the scanner's buffer can hold it
ScanOk(out, off) ==
    /\ off < Len(out)
    /\ ~TooLong(SubSeq(Unread(out, off), 1, LineLen(Unread(out, off))))

\* scanner.Text() after a Scan that returned true
ScanText(out, off) == SubSeq(Unread(out, off), 1, LineLen(Unread(out, off)))

CheckIdle ==
    /\ checkOut = <<>>
    /\ scanned = 0
    /\ line = <<>>
    /\ checkResult = FALSE
    /\ checkPc = "idle"

\* a call
ExtractCheckInfo ==
    /\ checkPc = "idle"
    /\ \E o \in Texts : checkOut' = o
    /\ scanned' = 0
    /\ line' = <<>>
    /\ checkResult' = FALSE
    /\ checkPc' = "scan"
    /\ UNCHANGED notCheckVars

\* one iteration over a line that is not the marker
ScanOtherLine ==
    /\ checkPc = "scan"
    /\ ScanOk(checkOut, scanned)
    /\ TrimSpace(ScanText(checkOut, scanned)) # Marker
    /\ line' = TrimSpace(ScanText(checkOut, scanned))
    /\ scanned' = scanned + Advance(Unread(checkOut, scanned))
    /\ UNCHANGED <<checkOut, checkResult, checkPc>>
    /\ UNCHANGED notCheckVars

\* one iteration over a line that is the marker: return true
ScanMarkerLine ==
    /\ checkPc = "scan"
    /\ ScanOk(checkOut, scanned)
    /\ TrimSpace(ScanText(checkOut, scanned)) = Marker
    /\ line' = TrimSpace(ScanText(checkOut, scanned))
    /\ scanned' = scanned + Advance(Unread(checkOut, scanned))
    /\ checkResult' = TRUE
    /\ checkPc' = "done"
    /\ UNCHANGED checkOut
    /\ UNCHANGED notCheckVars

\* Scan returns false, at the end of the text or on a line too long for the
\* buffer; the loop ends and the function returns false
ScanStops ==
    /\ checkPc = "scan"
    /\ ~ScanOk(checkOut, scanned)
    /\ checkResult' = FALSE
    /\ checkPc' = "done"
    /\ UNCHANGED <<checkOut, scanned, line>>
    /\ UNCHANGED notCheckVars

\* the caller takes the result
CheckReturned ==
    /\ checkPc = "done"
    /\ checkOut' = <<>>
    /\ scanned' = 0
    /\ line' = <<>>
    /\ checkResult' = FALSE
    /\ checkPc' = "idle"
    /\ UNCHANGED notCheckVars

CheckNext ==
    \/ ExtractCheckInfo
    \/ ScanOtherLine
    \/ ScanMarkerLine
    \/ ScanStops
    \/ CheckReturned


----------------------------------------------------------------------------
(* extractCleanupInfo. The input is one JSON value: malformed bytes, null, *)
(* a value that is no array, or an array. An element of the array is null, *)
(* a value that is no object, or an object whose "keep" and "remove" are   *)
(* each absent, null, a number or an array of entries.                     *)

Arr(items) == [t |-> "arr", items |-> items]

\* the entries of a list: any JSON text, kept as json.RawMessage
Entries == <<"{\"id\":\"40dc1520\"}", "null", "3", "[]">>

EntryList(n) == [k \in 1..n |-> Entries[((k - 1) % Len(Entries)) + 1]]

\* what a group object may hold under "keep" or under "remove"
ListValues == {Arr(EntryList(n)) : n \in 0..MaxEntries} \cup {JNull, Num(7, 0)}

GroupObjects ==
    {[host |-> Str("node-1")]}
    \cup {[host |-> Str("node-1"), keep |-> k] : k \in ListValues}
    \cup {[host |-> Str("node-1"), remove |-> r] : r \in ListValues}
    \cup {[host |-> Str("node-1"), keep |-> k, remove |-> r] :
              k \in ListValues, r \in ListValues}

Elements ==
    {[kind |-> "null"], [kind |-> "scalar"]}
    \cup {[kind |-> "object", fields |-> g] : g \in GroupObjects}

CleanupInputs ==
    {[kind |-> "malformed"], [kind |-> "null"], [kind |-> "scalar"],
     [kind |-> "object"]}
    \cup {[kind |-> "array", elems |-> e] : e \in SeqsUpTo(Elements, MaxGroups)}

\* the zero value of ForgetGroup
ZeroForgetGroup == [Keep |-> <<>>, Remove |-> <<>>]

\* whether encoding/json can store the value under key of obj in a
\* []json.RawMessage: the key is absent, or holds null or an array
ListFits(obj, key) == key \in DOMAIN obj => obj[key].t \in {"null", "arr"}

\* the []json.RawMessage decoded from the value under key of obj
ListOf(obj, key) ==
    IF key \in DOMAIN obj /\ obj[key].t = "arr" THEN obj[key].items ELSE <<>>

\* the ForgetGroup decoded from one element of the array
GroupOf(e) ==
    IF e.kind = "object"
    THEN [Keep |-> ListOf(e.fields, "keep"), Remove |-> ListOf(e.fields, "remove")]
    ELSE ZeroForgetGroup

ElementFits(e) ==
    \/ e.kind = "null"
    \/ e.kind = "object" /\ ListFits(e.fields, "keep") /\ ListFits(e.fields, "remove")

\* the error of json.Unmarshal(out, &fg)
CleanupUnmarshalErr(v) ==
    CASE v.kind = "malformed" -> ErrSyntax
      [] v.kind = "null" -> NoErr
      [] v.kind = "array" ->
            IF \A k \in 1..Len(v.elems) : ElementFits(v.elems[k])
            THEN NoErr ELSE ErrType
      [] OTHER -> ErrType

\* fg after a json.Unmarshal(out, &fg) that returned no error
CleanupUnmarshal(v) ==
    IF v.kind = "array" THEN [k \in 1..Len(v.elems) |-> GroupOf(v.elems[k])]
    ELSE <<>>

\* a slip: the entries are looked into and the null ones are not counted
CountNonNull(l) == Cardinality({k \in 1..Len(l) : l[k] # "null"})

\* int64(len(l))
CountOf(l) == Len(l)

CleanupIdle ==
    /\ cleanupOut = [kind |-> "none"]
    /\ fg = <<>>
    /\ idx = 0
    /\ keep = 0
    /\ removed = 0
    /\ cleanupRet = [keep |-> 0, removed |-> 0, err |-> NoErr]
    /\ cleanupPc = "idle"

\* a call
ExtractCleanupInfo ==
    /\ cleanupPc = "idle"
    /\ \E o \in CleanupInputs : cleanupOut' = o
    /\ cleanupPc' = "unmarshal"
    /\ UNCHANGED <<fg, idx, keep, removed, cleanupRet>>
    /\ UNCHANGED notCleanupVars

\* json.Unmarshal fails: return 0, 0, err
CleanupUnmarshalFails ==
    /\ cleanupPc = "unmarshal"
    /\ CleanupUnmarshalErr(cleanupOut) # NoErr
    /\ cleanupRet' = [keep |-> 0, removed |-> 0,
                      err |-> CleanupUnmarshalErr(cleanupOut)]
    /\ cleanupPc' = "done"
    /\ UNCHANGED <<cleanupOut, fg, idx, keep, removed>>
    /\ UNCHANGED notCleanupVars

\* json.Unmarshal succeeds: the loop starts
CleanupUnmarshalOk ==
    /\ cleanupPc = "unmarshal"
    /\ CleanupUnmarshalErr(cleanupOut) = NoErr
    /\ fg' = CleanupUnmarshal(cleanupOut)
    /\ keep' = 0
    /\ removed' = 0
    /\ idx' = 0
    /\ cleanupPc' = "loop"
    /\ UNCHANGED <<cleanupOut, cleanupRet>>
    /\ UNCHANGED notCleanupVars

\* one iteration of the loop
CountGroup ==
    /\ cleanupPc = "loop"
    /\ idx < Len(fg)
    /\ keep' = keep + CountOf(fg[idx + 1].Keep)
    /\ removed' = removed + CountOf(fg[idx + 1].Remove)
    /\ idx' = idx + 1
    /\ UNCHANGED <<cleanupOut, fg, cleanupRet, cleanupPc>>
    /\ UNCHANGED notCleanupVars

\* the loop is over: return keep, removed, nil
CleanupReturns ==
    /\ cleanupPc = "loop"
    /\ idx >= Len(fg)
    /\ cleanupRet' = [keep |-> keep, removed |-> removed, err |-> NoErr]
    /\ cleanupPc' = "done"
    /\ UNCHANGED <<cleanupOut, fg, idx, keep, removed>>
    /\ UNCHANGED notCleanupVars

\* the caller takes the result
CleanupReturned ==
    /\ cleanupPc = "done"
    /\ cleanupOut' = [kind |-> "none"]
    /\ fg' = <<>>
    /\ idx' = 0
    /\ keep' = 0
    /\ removed' = 0
    /\ cleanupRet' = [keep |-> 0, removed |-> 0, err |-> NoErr]
    /\ cleanupPc' = "idle"
    /\ UNCHANGED notCleanupVars

CleanupNext ==
    \/ ExtractCleanupInfo
    \/ CleanupUnmarshalFails
    \/ CleanupUnmarshalOk
    \/ CountGroup
    \/ CleanupReturns
    \/ CleanupReturned

----------------------------------------------------------------------------
(* The records that are written and read, and their JSON.                  *)

\* a slice is nil, or holds its items (none, for an empty slice)
NilSlice == [isNil |-> TRUE, items |-> <<>>]
Slice(items) == [isNil |-> FALSE, items |-> items]

JBool(b) == [t |-> "bool", v |-> b]
Obj(members) == [t |-> "obj", members |-> members]
Member(k, v) == [k |-> k, v |-> v]

\* api_v1beta1.HostBackupStats and HostRestoreStats, as far as this file
\* sees them: entries of a slice
HostStats(h, ph) == [Hostname |-> h, Phase |-> ph]

ZeroRepositoryStats ==
    [Integrity |-> Nil, Size |-> "", SnapshotCount |-> 0,
     SnapshotsRemovedOnLastCleanup |-> 0]

BackupOutputOf(hosts, repo) ==
    [type |-> "BackupOutput", HostBackupStats |-> hosts, RepositoryStats |-> repo]

RestoreOutputOf(hosts) ==
    [type |-> "RestoreOutput", HostRestoreStats |-> hosts]

\* &BackupOutput{} and &RestoreOutput{}
ZeroBackupOutput == BackupOutputOf(NilSlice, ZeroRepositoryStats)
ZeroRestoreOutput == RestoreOutputOf(NilSlice)

BackupOutputs ==
    {ZeroBackupOutput,
     BackupOutputOf(Slice(<<HostStats("host-0", "Succeeded"),
                            HostStats("host-1", "Failed")>>),
                    [Integrity |-> Ptr(TRUE), Size |-> "1.000 KiB",
                     SnapshotCount |-> 5, SnapshotsRemovedOnLastCleanup |-> 2]),
     BackupOutputOf(Slice(<<>>),
                    [Integrity |-> Ptr(FALSE), Size |-> "",
                     SnapshotCount |-> 0, SnapshotsRemovedOnLastCleanup |-> 2]),
     BackupOutputOf(Slice(<<HostStats("host-0", "Succeeded")>>),
                    [Integrity |-> Nil, Size |-> "2.500 MiB",
                     SnapshotCount |-> 5, SnapshotsRemovedOnLastCleanup |-> 0]),
     BackupOutputOf(NilSlice,
                    [Integrity |-> Ptr(FALSE), Size |-> "",
                     SnapshotCount |-> 0, SnapshotsRemovedOnLastCleanup |-> 0])}

RestoreOutputs ==
    {ZeroRestoreOutput,
     RestoreOutputOf(Slice(<<>>)),
     RestoreOutputOf(Slice(<<HostStats("host-0", "Succeeded")>>))}

\* a slip: a false *bool is left out too, as a plain bool would be
FalseIsEmptyToo(ptr) == ptr = Nil \/ ptr = Ptr(FALSE)

\* what the omitempty option leaves out: a nil pointer, an empty string, a
\* zero number, a slice with no items
EmptyPointer(ptr) == ptr = Nil
EmptySlice(sl) == Len(sl.items) = 0

\* one member, unless the option leaves it out
Opt(empty, k, v) == IF empty THEN <<>> ELSE <<Member(k, v)>>

HostStatsJSON(h) ==
    Obj(<<Member("hostname", Str(h.Hostname)), Member("phase", Str(h.Phase))>>)

SliceJSON(sl) == Arr([k \in 1..Len(sl.items) |-> HostStatsJSON(sl.items[k])])

RepositoryStatsJSON(r) ==
    Obj(Opt(EmptyPointer(r.Integrity), "integrity",
            JBool(IF r.Integrity = Nil THEN FALSE ELSE r.Integrity[1]))
        \o Opt(r.Size = "", "size", Str(r.Size))
        \o Opt(r.SnapshotCount = 0, "snapshotCount",
               Num(r.SnapshotCount, 0))
        \o Opt(r.SnapshotsRemovedOnLastCleanup = 0,
               "snapshotsRemovedOnLastCleanup",
               Num(r.SnapshotsRemovedOnLastCleanup, 0)))

\* the JSON value json.Marshal makes of a record; a struct is never empty
ToJSON(out) ==
    IF out.type = "BackupOutput"
    THEN Obj(Opt(EmptySlice(out.HostBackupStats), "hostBackupStats",
                 SliceJSON(out.HostBackupStats))
             \o <<Member("repository", RepositoryStatsJSON(out.RepositoryStats))>>)
    ELSE Obj(Opt(EmptySlice(out.HostRestoreStats), "hostRestoreStats",
                 SliceJSON(out.HostRestoreStats)))

RECURSIVE Spaces(_)
Spaces(n) == IF n = 0 THEN "" ELSE "  " \o Spaces(n - 1)

Quote(str) == "\"" \o str \o "\""

\* the lines with text put before the first and after the last
Framed(first, lines, last) ==
    [k \in 1..Len(lines) |->
        (IF k = 1 THEN first ELSE "") \o lines[k]
            \o (IF k = Len(lines) THEN last ELSE "")]

\* the text of a JSON value, as lines, indented by two spaces a level; the
\* first line starts where the value starts
RECURSIVE Render(_, _)
RECURSIVE RenderAll(_, _, _, _)
Render(v, depth) ==
    CASE v.t = "str" -> <<Quote(v.v)>>
      [] v.t = "num" -> <<ToString(v.int)>>
      [] v.t = "bool" -> <<IF v.v THEN "true" ELSE "false">>
      [] v.t = "obj" ->
            IF v.members = <<>> THEN <<"{}">>
            ELSE <<"{">> \o RenderAll(v.members, TRUE, depth + 1, 1)
                     \o <<Spaces(depth) \o "}">>
      [] v.t = "arr" ->
            IF v.items = <<>> THEN <<"[]">>
            ELSE <<"[">> \o RenderAll(v.items, FALSE, depth + 1, 1)
                     \o <<Spaces(depth) \o "]">>

\* the lines of the members (keyed) or items (not keyed) from the k-th on
RenderAll(xs, keyed, depth, k) ==
    IF k > Len(xs) THEN <<>>
    ELSE Framed(Spaces(depth)
                    \o (IF keyed THEN Quote(xs[k].k) \o ": " ELSE ""),
                Render(IF keyed THEN xs[k].v ELSE xs[k], depth),
                IF k < Len(xs) THEN "," ELSE "")
             \o RenderAll(xs, keyed, depth, k + 1)

\* json.MarshalIndent(out, "", "  ")
MarshalIndent(out) == Render(ToJSON(out), 0)

\* the JSON values whose text a file of the model can hold in full
Documents == {ToJSON(out) : out \in BackupOutputs \cup RestoreOutputs}

\* whether text is the text of a JSON value; a text that stops early, or
\* goes on after its value has ended, is not
IsJSON(text) == \E d \in Documents : Render(d, 0) = text

ParseJSON(text) == CHOOSE d \in Documents : Render(d, 0) = text

HasMember(obj, key) == \E k \in 1..Len(obj.members) : obj.members[k].k = key

MemberOf(obj, key) ==
    obj.members[CHOOSE k \in 1..Len(obj.members) : obj.members[k].k = key].v

HostStatsFromJSON(v) ==
    HostStats(IF HasMember(v, "hostname") THEN MemberOf(v, "hostname").v ELSE "",
              IF HasMember(v, "phase") THEN MemberOf(v, "phase").v ELSE "")

\* a slice field after Unmarshal: set from the member if there is one
SliceFromJSON(obj, key) ==
    IF HasMember(obj, key)
    THEN Slice([k \in 1..Len(MemberOf(obj, key).items) |->
                   HostStatsFromJSON(MemberOf(obj, key).items[k])])
    ELSE NilSlice

RepositoryStatsFromJSON(obj) ==
    [Integrity |-> IF HasMember(obj, "integrity")
                   THEN Ptr(MemberOf(obj, "integrity").v) ELSE Nil,
     Size |-> IF HasMember(obj, "size") THEN MemberOf(obj, "size").v ELSE "",
     SnapshotCount |-> IF HasMember(obj, "snapshotCount")
                       THEN MemberOf(obj, "snapshotCount").int ELSE 0,
     SnapshotsRemovedOnLastCleanup |->
         IF HasMember(obj, "snapshotsRemovedOnLastCleanup")
         THEN MemberOf(obj, "snapshotsRemovedOnLastCleanup").int ELSE 0]

\* json.Unmarshal(data, &BackupOutput{}): the members the struct has no
\* field for are skipped, the fields the text has no member for stay zero
UnmarshalBackupOutput(doc) ==
    BackupOutputOf(SliceFromJSON(doc, "hostBackupStats"),
                   IF HasMember(doc, "repository")
                   THEN RepositoryStatsFromJSON(MemberOf(doc, "repository"))
                   ELSE ZeroRepositoryStats)

\* json.Unmarshal(data, &RestoreOutput{})
UnmarshalRestoreOutput(doc) ==
    RestoreOutputOf(SliceFromJSON(doc, "hostRestoreStats"))

----------------------------------------------------------------------------
(* The file system. A path is the sequence of its elements; the working    *)
(* directory is the empty path.                                            *)

ErrNotDir == "mkdir: not a directory"
ErrIsDir == "open: is a directory"
ErrNoEnt == "open: no such file or directory"
ErrReadDir == "read: is a directory"

\* filepath.Dir
Dir(name) == SubSeq(name, 1, Len(name) - 1)

\* the directories on the way to d, d among them
Ancestors(d) == {SubSeq(d, 1, n) : n \in 0..Len(d)}

EmptyFS == [dirs |-> {<<>>}, files |-> [f \in {} |-> <<>>]]

\* a file system in which an earlier run was cut short: the directory is
\* there, and a file that holds the start of a JSON text
LeftoverFS ==
    [dirs |-> {<<>>, <<"out">>},
     files |-> [f \in {<<"out", "restore.json">>} |->
                   <<"{", "  \"hostRestoreStats\": [">>]]

InitialFileSystems == {EmptyFS, LeftoverFS}

IsFile(sys, name) == name \in DOMAIN sys.files

IsDir(sys, name) == name \in sys.dirs

\* os.MkdirAll(d, 0755): fails when d or a directory on the way is a file
MkdirAllErr(sys, d) ==
    IF \E a \in Ancestors(d) : IsFile(sys, a) THEN ErrNotDir ELSE NoErr

\* the file system after an os.MkdirAll(d, 0755) that returned no error
MkdirAll(sys, d) == [sys EXCEPT !.dirs = @ \cup Ancestors(d)]

\* os.OpenFile(name, O_WRONLY|O_CREATE|O_TRUNC, 0755), the first half of
\* ioutil.WriteFile
OpenErr(sys, name) ==
    IF IsDir(sys, name) THEN ErrIsDir
    ELSE IF ~IsDir(sys, Dir(name)) THEN ErrNoEnt
    ELSE NoErr

\* the file system after an OpenFile that returned no error: the file is
\* there and empty
OpenTruncate(sys, name) ==
    [sys EXCEPT !.files = [f \in DOMAIN @ \cup {name} |->
                              IF f = name THEN <<>> ELSE @[f]]]

\* the content of a file after text has been written at its start
WrittenOver(old, text) ==
    text \o SubSeq(old, Len(text) + 1, Len(old))

\* the file system after f.Write(text), the second half of ioutil.WriteFile
WriteAt(sys, name, text) ==
    [sys EXCEPT !.files = [f \in DOMAIN @ \cup {name} |->
                              IF f = name
                              THEN WrittenOver(IF IsFile(sys, name)
                                               THEN sys.files[name] ELSE <<>>,
                                               text)
                              ELSE @[f]]]

\* ioutil.ReadFile(name)
ReadErr(sys, name) ==
    IF IsDir(sys, name) THEN ErrReadDir
    ELSE IF ~IsFile(sys, name) THEN ErrNoEnt
    ELSE NoErr

----------------------------------------------------------------------------
(* WriteOutput, ReadBackupOutput and ReadRestoreOutput, statement by       *)
(* statement, each call by one of the callers.                             *)

Callers == {"a", "b"}

FileNames ==
    {<<"out", "backup.json">>, <<"out", "restore.json">>, <<"out">>}

WriteCalls ==
    {[fn |-> "WriteOutput", out |-> <<o>>, fileName |-> f] :
         o \in BackupOutputs \cup RestoreOutputs, f \in FileNames}

ReadCalls ==
    {[fn |-> r, out |-> <<>>, fileName |-> f] :
         r \in {"ReadBackupOutput", "ReadRestoreOutput"}, f \in FileNames}

Calls == WriteCalls \cup ReadCalls

NoCall == [fn |-> "none", out |-> <<>>, fileName |-> <<>>]

\* what a call returns: a pointer to a record (none for WriteOutput, nil
\* with an error) and an error
Returns(out, err) == [out |-> out, err |-> err]

NoReturn == Returns(<<>>, "none")

\* a slip: every call writes output.json in the directory of fileName
OutputJSONInDir(name) == Dir(name) \o <<"output.json">>

\* the file the bytes are written to: ioutil.WriteFile(fileName, ...)
WriteTarget(name) == name

\* a slip: the error of os.MkdirAll is dropped
MkdirErrorDropped(err) == FALSE

\* err != nil after os.MkdirAll
MkdirFailed(err) == err # NoErr

\* a step of caller c overlaps a call of another caller
Overlaps(c) == \E o \in Callers \ {c} : callPc[o] \notin {"idle", "done"}

IOIdle ==
    /\ fs = EmptyFS
    /\ fs0 = EmptyFS
    /\ budget = [c \in Callers |-> 0]
    /\ callPc = [c \in Callers |-> "idle"]
    /\ callOp = [c \in Callers |-> NoCall]
    /\ before = [c \in Callers |-> EmptyFS]
    /\ jsonText = [c \in Callers |-> <<>>]
    /\ data = [c \in Callers |-> <<>>]
    /\ ret = [c \in Callers |-> NoReturn]
    /\ prev = [c \in Callers |-> [call |-> NoCall, ret |-> NoReturn]]
    /\ overlap = FALSE

\* a caller calls one of the three functions
Call(c) ==
    /\ callPc[c] = "idle"
    /\ budget[c] > 0
    /\ \E op \in Calls :
          /\ callOp' = [callOp EXCEPT ![c] = op]
          /\ callPc' = [callPc EXCEPT ![c] =
                           IF op.fn = "WriteOutput" THEN "MarshalIndent"
                           ELSE "ReadFile"]
    /\ budget' = [budget EXCEPT ![c] = @ - 1]
    /\ before' = [before EXCEPT ![c] = fs]
    /\ jsonText' = [jsonText EXCEPT ![c] = <<>>]
    /\ data' = [data EXCEPT ![c] = <<>>]
    /\ ret' = [ret EXCEPT ![c] = NoReturn]
    /\ overlap' = (overlap \/ Overlaps(c))
    /\ UNCHANGED <<fs, fs0, prev>>

\* jsonOutput, err := json.MarshalIndent(out, "", "  "): never an error
DoMarshalIndent(c) ==
    /\ callPc[c] = "MarshalIndent"
    /\ jsonText' = [jsonText EXCEPT ![c] = MarshalIndent(callOp[c].out[1])]
    /\ callPc' = [callPc EXCEPT ![c] = "MkdirAll"]
    /\ overlap' = (overlap \/ Overlaps(c))
    /\ UNCHANGED <<fs, fs0, budget, callOp, before, data, ret, prev>>

\* os.MkdirAll(filepath.Dir(fileName), 0755) fails: return err
MkdirAllFails(c) ==
    /\ callPc[c] = "MkdirAll"
    /\ MkdirFailed(MkdirAllErr(fs, Dir(callOp[c].fileName)))
    /\ ret' = [ret EXCEPT ![c] =
                  Returns(<<>>, MkdirAllErr(fs, Dir(callOp[c].fileName)))]
    /\ callPc' = [callPc EXCEPT ![c] = "done"]
    /\ overlap' = (overlap \/ Overlaps(c))
    /\ UNCHANGED <<fs, fs0, budget, callOp, before, jsonText, data, prev>>

\* os.MkdirAll(filepath.Dir(fileName), 0755) is through
MkdirAllDone(c) ==
    /\ callPc[c] = "MkdirAll"
    /\ ~MkdirFailed(MkdirAllErr(fs, Dir(callOp[c].fileName)))
    /\ fs' = IF MkdirAllErr(fs, Dir(callOp[c].fileName)) = NoErr
             THEN MkdirAll(fs, Dir(callOp[c].fileName)) ELSE fs
    /\ callPc' = [callPc EXCEPT ![c] = "OpenFile"]
    /\ overlap' = (overlap \/ Overlaps(c))
    /\ UNCHANGED <<fs0, budget, callOp, before, jsonText, data, ret, prev>>

\* ioutil.WriteFile cannot open the file: return err
OpenFails(c) ==
    /\ callPc[c] = "OpenFile"
    /\ OpenErr(fs, WriteTarget(callOp[c].fileName)) # NoErr
    /\ ret' = [ret EXCEPT ![c] =
                  Returns(<<>>, OpenErr(fs, WriteTarget(callOp[c].fileName)))]
    /\ callPc' = [callPc EXCEPT ![c] = "done"]
    /\ overlap' = (overlap \/ Overlaps(c))
    /\ UNCHANGED <<fs, fs0, budget, callOp, before, jsonText, data, prev>>

\* ioutil.WriteFile opens the file, which creates or empties it
OpenDone(c) ==
    /\ callPc[c] = "OpenFile"
    /\ OpenErr(fs, WriteTarget(callOp[c].fileName)) = NoErr
    /\ fs' = OpenTruncate(fs, WriteTarget(callOp[c].fileName))
    /\ callPc' = [callPc EXCEPT ![c] = "Write"]
    /\ overlap' = (overlap \/ Overlaps(c))
    /\ UNCHANGED <<fs0, budget, callOp, before, jsonText, data, ret, prev>>

\* ioutil.WriteFile writes the bytes and closes the file: return nil
WriteDone(c) ==
    /\ callPc[c] = "Write"
    /\ fs' = WriteAt(fs, WriteTarget(callOp[c].fileName), jsonText[c])
    /\ ret' = [ret EXCEPT ![c] = Returns(<<>>, NoErr)]
    /\ callPc' = [callPc EXCEPT ![c] = "done"]
    /\ overlap' = (overlap \/ Overlaps(c))
    /\ UNCHANGED <<fs0, budget, callOp, before, jsonText, data, prev>>

\* data, err := ioutil.ReadFile(filename) fails: return nil, err
ReadFileFails(c) ==
    /\ callPc[c] = "ReadFile"
    /\ ReadErr(fs, callOp[c].fileName) # NoErr
    /\ ret' = [ret EXCEPT ![c] = Returns(<<>>, ReadErr(fs, callOp[c].fileName))]
    /\ callPc' = [callPc EXCEPT ![c] = "done"]
    /\ overlap' = (overlap \/ Overlaps(c))
    /\ UNCHANGED <<fs, fs0, budget, callOp, before, jsonText, data, prev>>

\* data, err := ioutil.ReadFile(filename)
ReadFileDone(c) ==
    /\ callPc[c] = "ReadFile"
    /\ ReadErr(fs, callOp[c].fileName) = NoErr
    /\ data' = [data EXCEPT ![c] = fs.files[callOp[c].fileName]]
    /\ callPc' = [callPc EXCEPT ![c] = "Unmarshal"]
    /\ overlap' = (overlap \/ Overlaps(c))
    /\ UNCHANGED <<fs, fs0, budget, callOp, before, jsonText, ret, prev>>

\* err = json.Unmarshal(data, ...) fails: return nil, err
UnmarshalFails(c) ==
    /\ callPc[c] = "Unmarshal"
    /\ ~IsJSON(data[c])
    /\ ret' = [ret EXCEPT ![c] = Returns(<<>>, ErrSyntax)]
    /\ callPc' = [callPc EXCEPT ![c] = "done"]
    /\ overlap' = (overlap \/ Overlaps(c))
    /\ UNCHANGED <<fs, fs0, budget, callOp, before, jsonText, data, prev>>

\* err = json.Unmarshal(data, ...): return the record, nil
UnmarshalDone(c) ==
    /\ callPc[c] = "Unmarshal"
    /\ IsJSON(data[c])
    /\ ret' = [ret EXCEPT ![c] =
                  Returns(<<IF callOp[c].fn = "ReadBackupOutput"
                            THEN UnmarshalBackupOutput(ParseJSON(data[c]))
                            ELSE UnmarshalRestoreOutput(ParseJSON(data[c]))>>,
                          NoErr)]
    /\ callPc' = [callPc EXCEPT ![c] = "done"]
    /\ overlap' = (overlap \/ Overlaps(c))
    /\ UNCHANGED <<fs, fs0, budget, callOp, before, jsonText, data, prev>>

\* the caller takes the result and goes on to its next call
Returned(c) ==
    /\ callPc[c] = "done"
    /\ budget[c] > 0
    /\ prev' = [prev EXCEPT ![c] = [call |-> callOp[c], ret |-> ret[c]]]
    /\ callPc' = [callPc EXCEPT ![c] = "idle"]
    /\ callOp' = [callOp EXCEPT ![c] = NoCall]
    /\ ret' = [ret EXCEPT ![c] = NoReturn]
    /\ jsonText' = [jsonText EXCEPT ![c] = <<>>]
    /\ data' = [data EXCEPT ![c] = <<>>]
    /\ UNCHANGED <<fs, fs0, budget, before, overlap>>

CallStep == \E c \in Callers : Call(c) /\ UNCHANGED notIOVars
MarshalIndentStep == \E c \in Callers : DoMarshalIndent(c) /\ UNCHANGED notIOVars
MkdirAllFailsStep == \E c \in Callers : MkdirAllFails(c) /\ UNCHANGED notIOVars
MkdirAllStep == \E c \in Callers : MkdirAllDone(c) /\ UNCHANGED notIOVars
OpenFailsStep == \E c \in Callers : OpenFails(c) /\ UNCHANGED notIOVars
OpenStep == \E c \in Callers : OpenDone(c) /\ UNCHANGED notIOVars
WriteStep == \E c \in Callers : WriteDone(c) /\ UNCHANGED notIOVars
ReadFileFailsStep == \E c \in Callers : ReadFileFails(c) /\ UNCHANGED notIOVars
ReadFileStep == \E c \in Callers : ReadFileDone(c) /\ UNCHANGED notIOVars
UnmarshalFailsStep == \E c \in Callers : UnmarshalFails(c) /\ UNCHANGED notIOVars
UnmarshalStep == \E c \in Callers : UnmarshalDone(c) /\ UNCHANGED notIOVars
ReturnedStep == \E c \in Callers : Returned(c) /\ UNCHANGED notIOVars

IONext ==
    \/ CallStep
    \/ MarshalIndentStep
    \/ MkdirAllFailsStep
    \/ MkdirAllStep
    \/ OpenFailsStep
    \/ OpenStep
    \/ WriteStep
    \/ ReadFileFailsStep
    \/ ReadFileStep
    \/ UnmarshalFailsStep
    \/ UnmarshalStep
    \/ ReturnedStep

----------------------------------------------------------------------------
(* extractBackupInfo.                                                      *)

\* the SnapshotStats the function starts from: only Path is set
NewSnapshotStats(p) ==
    [Path |-> p,
     FileStats |-> [NewFiles |-> Nil, ModifiedFiles |-> Nil,
                    UnmodifiedFiles |-> Nil, TotalFiles |-> Nil],
     Uploaded |-> "", TotalSize |-> "", ProcessingTime |-> "", Name |-> ""]

\* what dec.Decode returns for the next value of the stream
DecodeErr(out, off) ==
    IF off >= Len(out) THEN ErrEOF
    ELSE IF out[off + 1].kind = "malformed" THEN ErrSyntax
    ELSE UnmarshalErr(out[off + 1].fields)

\* a slip: any error of Decode ends the loop as the end of the stream does
IsEOFOrAnyError(e) == e # NoErr

\* err == io.EOF
IsEOF(e) == e = ErrEOF

\* a slip: the loop never recognises the summary and reads on
IsSummaryNever(s) == FALSE

\* jsonOutput.MessageType == "summary"
IsSummary(s) == s.MessageType = "summary"

\* uint64(f) of a non-negative float64
Truncate(f) == f.int

\* the assignments that follow the loop
MapSummary(stats, s) ==
    [stats EXCEPT
        !.FileStats = [NewFiles |-> s.FilesNew,
                       ModifiedFiles |-> s.FilesChanged,
                       UnmodifiedFiles |-> s.FilesUnmodified,
                       TotalFiles |-> s.TotalFilesProcessed],
        !.Uploaded = formatBytes(s.DataAdded),
        !.TotalSize = formatBytes(s.TotalBytesProcessed),
        !.ProcessingTime = formatSeconds(Truncate(s.TotalDuration)),
        !.Name = s.SnapshotID]

BackupIdle ==
    /\ output = <<>>
    /\ path = ""
    /\ dec = 0
    /\ jsonOutput = ZeroBackupSummary
    /\ snapshotStats = NewSnapshotStats("")
    /\ backupErr = NoErr
    /\ backupPc = "idle"

\* a call: the locals are initialised
ExtractBackupInfo ==
    /\ backupPc = "idle"
    /\ \E o \in Streams, p \in Paths :
          /\ output' = o
          /\ path' = p
          /\ snapshotStats' = NewSnapshotStats(p)
    /\ jsonOutput' = ZeroBackupSummary
    /\ dec' = 0
    /\ backupErr' = NoErr
    /\ backupPc' = "loop"
    /\ UNCHANGED notBackupVars

\* one iteration that ends the loop at the end of the stream
DecodeEOF ==
    /\ backupPc = "loop"
    /\ IsEOF(DecodeErr(output, dec))
    /\ backupPc' = "map"
    /\ UNCHANGED <<output, path, dec, jsonOutput, snapshotStats, backupErr>>
    /\ UNCHANGED notBackupVars

\* one iteration whose Decode fails: the function returns the error
DecodeFails ==
    /\ backupPc = "loop"
    /\ ~IsEOF(DecodeErr(output, dec))
    /\ DecodeErr(output, dec) # NoErr
    /\ backupErr' = DecodeErr(output, dec)
    /\ dec' = dec + 1
    /\ jsonOutput' = IF output[dec + 1].kind = "object"
                     THEN UnmarshalInto(jsonOutput, output[dec + 1].fields)
                     ELSE jsonOutput
    /\ backupPc' = "done"
    /\ UNCHANGED <<output, path, snapshotStats>>
    /\ UNCHANGED notBackupVars

\* one iteration that decodes an object: the loop ends on a summary
DecodeObject ==
    /\ backupPc = "loop"
    /\ DecodeErr(output, dec) = NoErr
    /\ jsonOutput' = UnmarshalInto(jsonOutput, output[dec + 1].fields)
    /\ dec' = dec + 1
    /\ backupPc' = IF IsSummary(jsonOutput') THEN "map" ELSE "loop"
    /\ UNCHANGED <<output, path, snapshotStats, backupErr>>
    /\ UNCHANGED notBackupVars

\* the mapping of jsonOutput into the result, and the return
MapAndReturn ==
    /\ backupPc = "map"
    /\ snapshotStats' = MapSummary(snapshotStats, jsonOutput)
    /\ backupPc' = "done"
    /\ UNCHANGED <<output, path, dec, jsonOutput, backupErr>>
    /\ UNCHANGED notBackupVars

\* the caller takes the result
BackupReturned ==
    /\ backupPc = "done"
    /\ output' = <<>>
    /\ path' = ""
    /\ dec' = 0
    /\ jsonOutput' = ZeroBackupSummary
    /\ snapshotStats' = NewSnapshotStats("")
    /\ backupErr' = NoErr
    /\ backupPc' = "idle"
    /\ UNCHANGED notBackupVars

BackupNext ==
    \/ ExtractBackupInfo
    \/ DecodeEOF
    \/ DecodeFails
    \/ DecodeObject
    \/ MapAndReturn
    \/ BackupReturned

BackupInit == BackupIdle /\ CheckIdle /\ CleanupIdle /\ IOIdle

SpecBackup == BackupInit /\ [][BackupNext]_vars

\* the loop is sequential code: a step that can be taken is taken
FairSpecBackup == SpecBackup /\ WF_vars(DecodeEOF \/ DecodeFails \/ DecodeObject \/ MapAndReturn)

----------------------------------------------------------------------------
(* Properties of extractBackupInfo.                                        *)

\* v is a JSON object whose message_type is "summary"
IsSummaryValue(v) ==
    /\ v.kind = "object"
    /\ "message_type" \in DOMAIN v.fields
    /\ v.fields["message_type"].t = "str"
    /\ v.fields["message_type"].v = "summary"

\* v is a JSON object every field of which has the type BackupSummary wants
IsWellTyped(v) == v.kind = "object" /\ UnmarshalErr(v.fields) = NoErr

SummaryIndexes(out) == {i \in 1..Len(out) : IsSummaryValue(out[i])}

\* the place of the first summary of out (0: there is none)
FirstSummary(out) ==
    IF SummaryIndexes(out) = {} THEN 0
    ELSE CHOOSE i \in SummaryIndexes(out) : \A j \in SummaryIndexes(out) : i <= j

\* the first summary of out is reached: everything before it decodes
SummaryAccepted(out) ==
    /\ FirstSummary(out) > 0
    /\ \A j \in 1..(FirstSummary(out) - 1) : IsWellTyped(out[j])

\* the places of out whose decoding fails
ErrorIndexes(out) == {i \in 1..Len(out) : ~IsWellTyped(out[i])}

\* the value of an optional counter of JSON object obj
CounterOf(obj, key) ==
    IF key \in DOMAIN obj /\ obj[key].t = "num" THEN Ptr(obj[key].int) ELSE Nil

\* the value of a number of JSON object obj, 0 when obj lacks it
NumberOf(obj, key) ==
    IF key \in DOMAIN obj /\ obj[key].t = "num" THEN obj[key].int ELSE 0

\* the value of a string of JSON object obj, "" when obj lacks it
StringOf(obj, key) ==
    IF key \in DOMAIN obj /\ obj[key].t = "str" THEN obj[key].v ELSE ""

NoFileStats ==
    [NewFiles |-> Nil, ModifiedFiles |-> Nil, UnmodifiedFiles |-> Nil,
     TotalFiles |-> Nil]

\* C1 (as claimed): a stream of well-formed objects none of which is a summary
\* (the empty stream too) gives no error, Path = path and every other field at
\* its zero value, whatever the objects carried. The humanized fields are
\* allowed either reading of "zero": the empty string or the rendering of 0.
\* The objects are also taken to be well typed, which only narrows the claim.
C1_ProgressOnlyGivesZeroStats ==
    (backupPc = "done"
        /\ \A i \in 1..Len(output) :
               IsWellTyped(output[i]) /\ ~IsSummaryValue(output[i]))
    => /\ backupErr = NoErr
       /\ snapshotStats.Path = path
       /\ snapshotStats.FileStats = NoFileStats
       /\ snapshotStats.Uploaded \in {"", formatBytes(0)}
       /\ snapshotStats.TotalSize \in {"", formatBytes(0)}
       /\ snapshotStats.ProcessingTime \in {"", formatSeconds(0)}
       /\ snapshotStats.Name = ""

\* C2 (as claimed): when a summary is accepted, each file count of the result
\* is unset when the summary lacks the field and is the summary's value
\* otherwise, whatever the objects before the summary carried.
C2_CountsComeFromSummary ==
    (backupPc = "done" /\ SummaryAccepted(output))
    => LET S == output[FirstSummary(output)].fields
       IN  snapshotStats.FileStats =
               [NewFiles |-> CounterOf(S, "files_new"),
                ModifiedFiles |-> CounterOf(S, "files_changed"),
                UnmodifiedFiles |-> CounterOf(S, "files_unmodified"),
                TotalFiles |-> CounterOf(S, "total_files_processed")]

\* C3 (as claimed): when a summary S is accepted, Uploaded, TotalSize,
\* ProcessingTime and Name are computed from S alone, Path is the path
\* argument and there is no error.
C3_StatsComeFromSummary ==
    (backupPc = "done" /\ SummaryAccepted(output))
    => LET S == output[FirstSummary(output)].fields
       IN  /\ backupErr = NoErr
           /\ snapshotStats.Path = path
           /\ snapshotStats.Uploaded = formatBytes(NumberOf(S, "data_added"))
           /\ snapshotStats.TotalSize =
                  formatBytes(NumberOf(S, "total_bytes_processed"))
           /\ snapshotStats.ProcessingTime =
                  formatSeconds(NumberOf(S, "total_duration"))
           /\ snapshotStats.Name = StringOf(S, "snapshot_id")

\* a malformed value lies in out with no summary before it
MalformedBeforeSummary(out) ==
    \E i \in 1..Len(out) :
        /\ out[i].kind = "malformed"
        /\ \A j \in 1..(i - 1) : ~IsSummaryValue(out[j])

\* C4: a stream in which a malformed value is reached before any summary
\* makes extractBackupInfo return a decode error and no filled-in result,
\* however many well-formed objects come before the malformed one.
C4_MalformedBeforeSummaryFails ==
    (backupPc = "done" /\ MalformedBeforeSummary(output))
    => /\ backupErr \in {ErrSyntax, ErrType}
       /\ snapshotStats = NewSnapshotStats(path)

\* C4's case: well-formed objects, then a malformed value, and the error
C4_Witness ==
    /\ backupPc = "done"
    /\ output = <<StatusCounts, Untyped, Malformed>>
    /\ backupErr = ErrSyntax

\* the struct after the objects out[1..n] have been decoded into it in order
RECURSIVE DecodedPrefix(_, _)
DecodedPrefix(out, n) ==
    IF n = 0 THEN ZeroBackupSummary
    ELSE UnmarshalInto(DecodedPrefix(out, n - 1), out[n].fields)

\* the safety half of C10
DecodeLoopStopsAtFirstSummary ==
    /\ dec <= Len(output)
    /\ FirstSummary(output) > 0 => dec <= FirstSummary(output)
    /\ ErrorIndexes(output) # {} => \A i \in ErrorIndexes(output) : dec <= i
    /\ (backupPc = "done" /\ SummaryAccepted(output))
       => /\ dec = FirstSummary(output)
          /\ backupErr = NoErr
          /\ snapshotStats =
                 MapSummary(NewSnapshotStats(path),
                            DecodedPrefix(output, FirstSummary(output)))
    /\ (backupPc = "done" /\ ~SummaryAccepted(output))
       => IF ErrorIndexes(output) = {}
          THEN dec = Len(output) /\ backupErr = NoErr
          ELSE dec \in ErrorIndexes(output) /\ backupErr \in {ErrSyntax, ErrType}

\* C10: the loop takes the values in order and always ends: at the first
\* summary, which it uses, so that nothing after it is decoded, changes the
\* result or fails the call; else at the end of the stream or at the first
\* decode error.
C10_DecodeLoopStopsAndTerminates ==
    /\ []DecodeLoopStopsAtFirstSummary
    /\ [][dec' = dec \/ dec' = dec + 1 \/ backupPc' = "idle"]_vars
    /\ (backupPc = "loop") ~> (backupPc = "done")

\* C10's case: a summary followed by a second summary and by malformed bytes
C10_Witness ==
    /\ backupPc = "done"
    /\ output = <<StatusPlain, SummaryPartial, Malformed>>
    /\ dec = 2
    /\ backupErr = NoErr
    /\ snapshotStats.Name = "ef567890"

----------------------------------------------------------------------------
CheckInit == BackupIdle /\ CheckIdle /\ CleanupIdle /\ IOIdle

SpecCheck == CheckInit /\ [][CheckNext]_vars

----------------------------------------------------------------------------
(* Properties of extractCheckInfo.                                         *)

\* the lines of a text: what lies between its line feeds
RECURSIVE LinesOf(_)
LinesOf(s) ==
    IF s = <<>> THEN {}
    ELSE {SubSeq(s, 1, LineLen(s))}
             \cup LinesOf(SubSeq(s, Advance(s) + 1, Len(s)))

HasMarkerLine(s) == \E l \in LinesOf(s) : TrimSpace(l) = Marker

\* C7 (as claimed): the result is true exactly when some line of the input,
\* trimmed, is the marker, whatever the content or the length of the lines
\* before or after it.
C7_TrueIffMarkerLine ==
    checkPc = "done" => (checkResult <=> HasMarkerLine(checkOut))


----------------------------------------------------------------------------
CleanupInit == BackupIdle /\ CheckIdle /\ CleanupIdle /\ IOIdle

SpecCleanup == CleanupInit /\ [][CleanupNext]_vars

----------------------------------------------------------------------------
(* Properties of extractCleanupInfo.                                       *)

\* v is an array of group objects whose keep and remove lists are arrays
\* where they are present
IsGroupArray(v) ==
    /\ v.kind = "array"
    /\ \A k \in 1..Len(v.elems) :
          /\ v.elems[k].kind = "object"
          /\ \A key \in {"keep", "remove"} :
                key \in DOMAIN v.elems[k].fields
                    => v.elems[k].fields[key].t = "arr"

\* as IsGroupArray, with null allowed for the input, for an element and for
\* a list
IsGroupArrayOrNull(v) ==
    \/ v.kind = "null"
    \/ /\ v.kind = "array"
       /\ \A k \in 1..Len(v.elems) :
             \/ v.elems[k].kind = "null"
             \/ /\ v.elems[k].kind = "object"
                /\ \A key \in {"keep", "remove"} :
                      key \in DOMAIN v.elems[k].fields
                          => v.elems[k].fields[key].t \in {"arr", "null"}

\* the number of entries of the list under key of an element
EntriesUnder(e, key) ==
    IF e.kind = "object" /\ key \in DOMAIN e.fields /\ e.fields[key].t = "arr"
    THEN Len(e.fields[key].items) ELSE 0

\* the sum over the first n elements of the lengths of the lists under key
RECURSIVE SumUnder(_, _, _)
SumUnder(elems, key, n) ==
    IF n = 0 THEN 0
    ELSE SumUnder(elems, key, n - 1) + EntriesUnder(elems[n], key)

TotalUnder(v, key) ==
    IF v.kind = "array" THEN SumUnder(v.elems, key, Len(v.elems)) ELSE 0

\* C6 (as claimed): an input that is an array of group objects gives no error
\* and the two sums of list lengths; any other input gives a decode error and
\* two zero counts.
C6_AllOrNothing ==
    cleanupPc = "done"
    => IF IsGroupArray(cleanupOut)
       THEN cleanupRet = [keep |-> TotalUnder(cleanupOut, "keep"),
                          removed |-> TotalUnder(cleanupOut, "remove"),
                          err |-> NoErr]
       ELSE /\ cleanupRet.err # NoErr
            /\ cleanupRet.keep = 0
            /\ cleanupRet.removed = 0

\* C6 (amended): JSON null is accepted wherever it stands (as the input, as
\* an element, as a list) and counts as nothing; with that, the input gives
\* the two sums and no error, or a decode error and two zero counts.
C6_AllOrNothingWithNull ==
    cleanupPc = "done"
    => IF IsGroupArrayOrNull(cleanupOut)
       THEN cleanupRet = [keep |-> TotalUnder(cleanupOut, "keep"),
                          removed |-> TotalUnder(cleanupOut, "remove"),
                          err |-> NoErr]
       ELSE /\ cleanupRet.err \in {ErrSyntax, ErrType}
            /\ cleanupRet.keep = 0
            /\ cleanupRet.removed = 0

\* C6's case: two groups counted, one of them with a null entry in its list
C6_Witness ==
    /\ cleanupPc = "done"
    /\ cleanupOut.kind = "array"
    /\ Len(cleanupOut.elems) = 2
    /\ cleanupRet = [keep |-> 3, removed |-> 2, err |-> NoErr]

----------------------------------------------------------------------------
\* one caller, which makes MaxCalls calls one after the other
IOInit ==
    /\ BackupIdle /\ CheckIdle /\ CleanupIdle
    /\ fs \in InitialFileSystems
    /\ fs0 = fs
    /\ budget = [c \in Callers |-> IF c = "a" THEN MaxCalls ELSE 0]
    /\ callPc = [c \in Callers |-> "idle"]
    /\ callOp = [c \in Callers |-> NoCall]
    /\ before = [c \in Callers |-> fs]
    /\ jsonText = [c \in Callers |-> <<>>]
    /\ data = [c \in Callers |-> <<>>]
    /\ ret = [c \in Callers |-> NoReturn]
    /\ prev = [c \in Callers |-> [call |-> NoCall, ret |-> NoReturn]]
    /\ overlap = FALSE

\* two callers at once, each of which makes one call
ConcInit ==
    /\ BackupIdle /\ CheckIdle /\ CleanupIdle
    /\ fs \in InitialFileSystems
    /\ fs0 = fs
    /\ budget = [c \in Callers |-> 1]
    /\ callPc = [c \in Callers |-> "idle"]
    /\ callOp = [c \in Callers |-> NoCall]
    /\ before = [c \in Callers |-> fs]
    /\ jsonText = [c \in Callers |-> <<>>]
    /\ data = [c \in Callers |-> <<>>]
    /\ ret = [c \in Callers |-> NoReturn]
    /\ prev = [c \in Callers |-> [call |-> NoCall, ret |-> NoReturn]]
    /\ overlap = FALSE

SpecIO == IOInit /\ [][IONext]_vars

\* as IONext, but for the step to a next call: each caller makes one call
ConcNext ==
    \/ CallStep
    \/ MarshalIndentStep
    \/ MkdirAllFailsStep
    \/ MkdirAllStep
    \/ OpenFailsStep
    \/ OpenStep
    \/ WriteStep
    \/ ReadFileFailsStep
    \/ ReadFileStep
    \/ UnmarshalFailsStep
    \/ UnmarshalStep

SpecConc == ConcInit /\ [][ConcNext]_vars

----------------------------------------------------------------------------
(* Properties of WriteOutput and Read*Output with one caller.              *)

\* the function that reads a record of the type of out
ReaderOf(out) ==
    IF out.type = "BackupOutput" THEN "ReadBackupOutput" ELSE "ReadRestoreOutput"

\* caller c has written a record without error and has then read the same
\* file with the reader of the record's type
RoundTrip(c) ==
    /\ callPc[c] = "done"
    /\ prev[c].call.fn = "WriteOutput"
    /\ prev[c].ret.err = NoErr
    /\ callOp[c].fileName = prev[c].call.fileName
    /\ callOp[c].fn = ReaderOf(prev[c].call.out[1])

\* the host-stats slice of a record
HostsOf(out) ==
    IF out.type = "BackupOutput" THEN out.HostBackupStats ELSE out.HostRestoreStats

\* the record with its host-stats slice nil if it was empty
EmptyAsNil(out) ==
    IF HostsOf(out).items # <<>> THEN out
    ELSE IF out.type = "BackupOutput"
         THEN [out EXCEPT !.HostBackupStats = NilSlice]
         ELSE [out EXCEPT !.HostRestoreStats = NilSlice]

\* C5 (as claimed): writing a record and reading the file back gives no error
\* and a record deep-equal to the one written, for every mix of present and
\* absent optional fields, a host-stats slice that is empty but not nil
\* among them.
C5_RoundTripDeepEqual ==
    \A c \in Callers :
        RoundTrip(c) => ret[c] = Returns(prev[c].call.out, NoErr)

\* C5 (amended): reading back gives no error and the record written, but for
\* a host-stats slice that was empty and not nil, which comes back nil; a
\* record whose slice is nil or has items comes back deep-equal.
C5_RoundTripUpToEmptySlice ==
    \A c \in Callers :
        RoundTrip(c)
        => /\ ret[c] = Returns(<<EmptyAsNil(prev[c].call.out[1])>>, NoErr)
           /\ (HostsOf(prev[c].call.out[1]).isNil
                   \/ HostsOf(prev[c].call.out[1]).items # <<>>)
              => ret[c].out = prev[c].call.out

\* C5's case: a record with a false Integrity, a zero SnapshotCount and an
\* empty Size has been written and read back as it was
C5_Witness ==
    /\ RoundTrip("a")
    /\ prev["a"].call.out[1].type = "BackupOutput"
    /\ prev["a"].call.out[1].RepositoryStats.Integrity = Ptr(FALSE)
    /\ prev["a"].call.out[1].RepositoryStats.SnapshotCount = 0
    /\ prev["a"].call.out[1].RepositoryStats.Size = ""
    /\ prev["a"].call.out[1].HostBackupStats.isNil
    /\ ret["a"] = Returns(prev["a"].call.out, NoErr)

\* a directory that WriteOutput has to make sure of is a file
DirectoryBlocked(sys, name) ==
    \E n \in 1..(Len(name) - 1) : SubSeq(name, 1, n) \in DOMAIN sys.files

\* the directories that WriteOutput has to make sure of are there
DirectoriesThere(sys, name) ==
    \A n \in 0..(Len(name) - 1) : SubSeq(name, 1, n) \in sys.dirs

\* the files of now other than name are those of then, unchanged
OthersUntouched(now, then, name) ==
    /\ DOMAIN now.files \ {name} = DOMAIN then.files \ {name}
    /\ \A f \in DOMAIN then.files \ {name} : now.files[f] = then.files[f]

----------------------------------------------------------------------------
(* Properties of the calls of two callers at once.                         *)

\* what a call does and returns when it runs alone on file system sys
RunWrite(sys, call) ==
    LET d == Dir(call.fileName)
        target == WriteTarget(call.fileName)
        made == IF MkdirAllErr(sys, d) = NoErr THEN MkdirAll(sys, d) ELSE sys
    IN  IF MkdirFailed(MkdirAllErr(sys, d))
        THEN [fs |-> sys, ret |-> Returns(<<>>, MkdirAllErr(sys, d))]
        ELSE IF OpenErr(made, target) # NoErr
        THEN [fs |-> made, ret |-> Returns(<<>>, OpenErr(made, target))]
        ELSE [fs |-> WriteAt(OpenTruncate(made, target), target,
                             MarshalIndent(call.out[1])),
              ret |-> Returns(<<>>, NoErr)]

RunRead(sys, call) ==
    IF ReadErr(sys, call.fileName) # NoErr
    THEN [fs |-> sys, ret |-> Returns(<<>>, ReadErr(sys, call.fileName))]
    ELSE IF ~IsJSON(sys.files[call.fileName])
    THEN [fs |-> sys, ret |-> Returns(<<>>, ErrSyntax)]
    ELSE [fs |-> sys,
          ret |-> Returns(<<IF call.fn = "ReadBackupOutput"
                            THEN UnmarshalBackupOutput(
                                     ParseJSON(sys.files[call.fileName]))
                            ELSE UnmarshalRestoreOutput(
                                     ParseJSON(sys.files[call.fileName]))>>,
                          NoErr)]

Run(sys, call) ==
    IF call.fn = "WriteOutput" THEN RunWrite(sys, call) ELSE RunRead(sys, call)

\* the calls of first and then of second, one after the other
OneAfterTheOther(first, second) ==
    LET r1 == Run(fs0, callOp[first])
        r2 == Run(r1.fs, callOp[second])
    IN  [fs |-> r2.fs,
         ret |-> [c \in Callers |-> IF c = first THEN r1.ret ELSE r2.ret]]

AllDone == \A c \in Callers : callPc[c] = "done"

DistinctFiles ==
    \A c, o \in Callers : c # o => callOp[c].fileName # callOp[o].fileName

\* no call's file is a directory on the way to another call's file
NoFileAboveAnother ==
    \A c, o \in Callers : callOp[c].fileName \notin Ancestors(Dir(callOp[o].fileName))

WritersOf(f) ==
    {c \in Callers : callOp[c].fn = "WriteOutput" /\ callOp[c].fileName = f}

\* file f was changed and holds the text of none of the records written to it
Spoiled(f) ==
    /\ f \in DOMAIN fs.files
    /\ f \in DOMAIN fs0.files => fs.files[f] # fs0.files[f]
    /\ \A c \in WritersOf(f) : fs.files[f] # MarshalIndent(callOp[c].out[1])

\* C9: the calls share no state but the file system. When two calls that
\* overlap name different files, every result and every file is what the two
\* calls give one after the other (and, unless one file is a directory of the
\* other, what each call gives alone); only two writes to one file can leave
\* a file that holds the text of none of the records written.
C9_DistinctFilesDoNotInterfere ==
    AllDone
    => /\ DistinctFiles
          => \/ OneAfterTheOther("a", "b") = [fs |-> fs, ret |-> ret]
             \/ OneAfterTheOther("b", "a") = [fs |-> fs, ret |-> ret]
       /\ (DistinctFiles /\ NoFileAboveAnother)
          => /\ \A c \in Callers : ret[c] = Run(fs0, callOp[c]).ret
             /\ OneAfterTheOther("a", "b") = [fs |-> fs, ret |-> ret]
             /\ OneAfterTheOther("b", "a") = [fs |-> fs, ret |-> ret]
       /\ \A f \in DOMAIN fs.files :
             Spoiled(f) => Cardinality(WritersOf(f)) = 2

\* C9's case: two writes to different files of one directory that overlapped
C9_Witness ==
    /\ AllDone
    /\ overlap
    /\ callOp["a"].fn = "WriteOutput" /\ callOp["b"].fn = "WriteOutput"
    /\ callOp["a"].fileName = <<"out", "backup.json">>
    /\ callOp["b"].fileName = <<"out", "restore.json">>
    /\ ret["a"].err = NoErr /\ ret["b"].err = NoErr
    /\ fs0 = EmptyFS

\* two writes to one file that overlapped have left a text that is neither's
TwoWritersSpoilAFile ==
    \E f \in DOMAIN fs.files : AllDone /\ Spoiled(f) /\ Cardinality(WritersOf(f)) = 2

====
